---------------------------- MODULE Spec2Model ----------------------------
(***************************************************************************)
(* Model of the chat-bot gateway of radio-t/super-bot (fork                *)
(* alexkart/super-bot):                                                    *)
(*   - LimitedMessageHistory, the bounded history buffer of the OpenAI     *)
(*     bot, in its per-conversation form (app/bot/openai/openaihistory.go) *)
(*     and in its single-sequence form (the legacy file of package openai);*)
(*   - TelegramListener (package events): Do's select loop, sendBotResponse*)
(*     with its plain-text fallback, Submit / SubmitHTML and the lazily    *)
(*     created outbound channel.                                           *)
(***************************************************************************)
EXTENDS Integers, Sequences, FiniteSets, TLC

(***************************************************************************)
(* Bounds of the model.                                                    *)
(***************************************************************************)
\* largest capacity a history buffer is constructed with
MaxLimit == 2
\* Add calls made on one history buffer
MaxAdds == 3

(***************************************************************************)
(* Small helpers.                                                          *)
(***************************************************************************)
Min(a, b) == IF a < b THEN a ELSE b

\* s[from:] of Go, 0-based from
SliceFrom(s, from) == SubSeq(s, from + 1, Len(s))

\* the last k elements of s
LastN(s, k) == SubSeq(s, Len(s) - k + 1, Len(s))

VARIABLES
    \* ---- LimitedMessageHistory (per-conversation form) ----
    limit,          \* LimitedMessageHistory.limit
    chats,          \* LimitedMessageHistory.chats: ChatID -> ChatHistory
    added,          \* history of the calls: every message passed to Add, in order
    \* ---- LimitedMessageHistory (single-sequence form) ----
    legacy,         \* [limit, count, messages]
    legacyAdded,    \* every message passed to the legacy Add, in order
    picked          \* what the last step, a call of GetRandomMessage, returned

histVars == <<limit, chats, added, legacy, legacyAdded, picked>>

\* the last call of getBanUsername: its arguments and what it produced
VARIABLES banCall

banVars == <<banCall>>

(***************************************************************************)
(* Go strings whose characters the code inspects (TelegramListener.Group,  *)
(* bot.Message.ChatID) are sequences of one-character strings; the other   *)
(* texts are opaque TLA+ strings.                                          *)
(***************************************************************************)
DigitChars == <<"0", "1", "2", "3", "4", "5", "6", "7", "8", "9">>

IsDigit(c) == \E d \in 1..10 : DigitChars[d] = c

DigitValue(c) == (CHOOSE d \in 1..10 : DigitChars[d] = c) - 1

RECURSIVE NatDigits(_)
NatDigits(n) ==
    IF n < 10 THEN <<DigitChars[n + 1]>>
    ELSE NatDigits(n \div 10) \o <<DigitChars[(n % 10) + 1]>>

\* strconv.Itoa
Itoa(n) == IF n < 0 THEN <<"-">> \o NatDigits(0 - n) ELSE NatDigits(n)

RECURSIVE DigitsValue(_)
DigitsValue(ds) ==
    IF ds = <<>> THEN 0
    ELSE DigitsValue(SubSeq(ds, 1, Len(ds) - 1)) * 10 + DigitValue(ds[Len(ds)])

\* strconv.ParseInt(s, 10, 64) on the values the model uses (no overflow):
\* an optional sign followed by at least one digit, and nothing else
ParseInt(s) ==
    LET signed == Len(s) > 0 /\ s[1] \in {"-", "+"}
        ds == IF signed THEN SliceFrom(s, 1) ELSE s
        ok == Len(ds) > 0 /\ \A i \in 1..Len(ds) : IsDigit(ds[i])
    IN IF ~ok THEN [ok |-> FALSE, value |-> 0]
       ELSE [ok |-> TRUE,
             value |-> IF signed /\ s[1] = "-" THEN 0 - DigitsValue(ds)
                       ELSE DigitsValue(ds)]

(***************************************************************************)
(* Optional values (Go pointers that may be nil) are sequences of length   *)
(* 0 (nil) or 1.                                                           *)
(***************************************************************************)
Nil == <<>>
Some(v) == <<v>>
IsNil(o) == o = <<>>

(***************************************************************************)
(* Domain values: bot.User, bot.SenderChat, bot.Message, bot.Response.     *)
(***************************************************************************)
ZeroUser == [ID |-> 0, Username |-> "", DisplayName |-> ""]
ZeroSenderChat == [ID |-> 0, UserName |-> ""]
ZeroReplyTo == [Text |-> "", Sent |-> 0, From |-> ZeroUser, SenderChat |-> ZeroSenderChat]

\* bot.Message{}
ZeroMessage ==
    [ID |-> 0, ChatID |-> <<>>, Sent |-> 0, Text |-> "", From |-> ZeroUser,
     SenderChat |-> ZeroSenderChat, Entities |-> Nil, Image |-> Nil,
     ReplyTo |-> ZeroReplyTo]

\* bot.Message{Text: "idle"}
IdleMessage == [ZeroMessage EXCEPT !.Text = "idle"]

\* tbapi parse modes
ModeMarkdown == "Markdown"
ModeHTML == "HTML"
ModeNone == ""

\* bot.Response{}
ZeroResponse ==
    [Text |-> "", Send |-> FALSE, Pin |-> FALSE, Preview |-> FALSE, ReplyTo |-> 0,
     ParseMode |-> "", BanInterval |-> 0, User |-> ZeroUser, ChannelID |-> 0]

(***************************************************************************)
(* Wire values: tbapi.User, tbapi.Chat, tbapi.Message, tbapi.Update.       *)
(***************************************************************************)
ZeroWireMessage ==
    [MessageID |-> 0, Date |-> 0, Chat |-> [ID |-> 0, Type |-> ""],
     MessageThreadID |-> 0, Text |-> "", From |-> Nil, SenderChat |-> Nil,
     Entities |-> <<>>, Photo |-> <<>>, Caption |-> "", CaptionEntities |-> <<>>,
     ReplyToMessage |-> Nil]

\* the bot.User made of a tbapi.User
TransformUser(u) ==
    [ID |-> u.ID, Username |-> u.UserName,
     DisplayName |-> u.FirstName \o " " \o u.LastName]

TransformSenderChat(c) == [ID |-> c.ID, UserName |-> c.UserName]

\* (l *TelegramListener) transformEntities
TransformEntities(entities) ==
    IF Len(entities) = 0 THEN Nil
    ELSE Some([i \in 1..Len(entities) |->
                [Type |-> entities[i].Type, Offset |-> entities[i].Offset,
                 Length |-> entities[i].Length, URL |-> entities[i].URL,
                 User |-> IF IsNil(entities[i].User) THEN Nil
                          ELSE Some(TransformUser(entities[i].User[1]))]])

\* the chat key of transform: "<chat id>_<thread id>", empty for chat id 0
ChatKey(id, threadID) ==
    IF id # 0 THEN Itoa(id) \o <<"_">> \o Itoa(threadID) ELSE <<>>

\* the bot.Image made of the largest (last) size of a photo
LastSizeImage(msg) ==
    LET lastSize == msg.Photo[Len(msg.Photo)]
    IN Some([FileID |-> lastSize.FileID, Width |-> lastSize.Width,
             Height |-> lastSize.Height, Caption |-> msg.Caption,
             Entities |-> TransformEntities(msg.CaptionEntities)])

\* the Image of transform: the second case of its switch, taken only when the
\* first (the message has entities) is not
TransformImageWithSpans(msg) ==
    IF Len(msg.Photo) = 0 THEN Nil ELSE LastSizeImage(msg)

TransformImage(msg) ==
    IF Len(msg.Entities) > 0 \/ Len(msg.Photo) = 0 THEN Nil ELSE LastSizeImage(msg)

\* (l *TelegramListener) transform
Transform(msg) ==
    [ID |-> msg.MessageID,
     Sent |-> msg.Date,
     Text |-> msg.Text,
     ChatID |-> ChatKey(msg.Chat.ID, msg.MessageThreadID),
     From |-> IF IsNil(msg.From) THEN ZeroUser ELSE TransformUser(msg.From[1]),
     SenderChat |-> IF IsNil(msg.SenderChat) THEN ZeroSenderChat
                    ELSE TransformSenderChat(msg.SenderChat[1]),
     Entities |-> IF Len(msg.Entities) > 0 THEN TransformEntities(msg.Entities)
                  ELSE Nil,
     Image |-> TransformImage(msg),
     ReplyTo |-> IF IsNil(msg.ReplyToMessage) THEN ZeroReplyTo
                 ELSE LET r == msg.ReplyToMessage[1]
                      IN [Text |-> r.Text, Sent |-> r.Date,
                          From |-> IF IsNil(r.From) THEN ZeroUser
                                   ELSE TransformUser(r.From[1]),
                          SenderChat |-> IF IsNil(r.SenderChat) THEN ZeroSenderChat
                                         ELSE TransformSenderChat(r.SenderChat[1])]]

(***************************************************************************)
(* TelegramListener.                                                       *)
(***************************************************************************)
\* capacity of the outbound channel, make(chan bot.Response, 100)
ChanCap == 100
\* the default idle duration, 30 * time.Second, in seconds
DefaultIdleSeconds == 30
\* seconds that pass in one step of the clock
TickSeconds == 30
\* updates waiting in the transport's update channel
MaxPendingUpdates == 1
\* Responses in the outbound channel when a call of Submit begins, under
\* SpecSubmit
MaxPending == 2

\* goroutines calling Submit and SubmitHTML
Procs == {"p1", "p2"}
\* the one of them that is active under Spec
LoopProcs == {"p1"}

VARIABLES
    Group,          \* TelegramListener.Group
    cfgIdle,        \* IdleDuration as configured at construction (seconds)
    IdleDuration,   \* TelegramListener.IdleDuration (seconds)
    chatID,         \* TelegramListener.chatID
    onceDone,       \* msgs.once has run its function
    chans,          \* every channel made so far, each the queue of its Responses
    msgsCh,         \* msgs.ch: index into chans, 0 for the nil channel
    doPC,           \* Do: "init", "select" (about to evaluate its select), "blocked"
                    \* (waiting in the select, no case was ready) or "returned"
    woken,          \* the case that woke the blocked select, "none" if none yet
    doErr,          \* what Do returned: "none", "chatid", "closed", "ctx"
    ctxDone,        \* the context given to Do is cancelled
    resolveCalls,   \* TbAPI.GetChat calls made
    subscribed,     \* TbAPI.GetUpdatesChan has been called
    updates,        \* the updates waiting in the update channel
    updatesClosed,  \* the update channel is closed
    waited,         \* seconds the current select has been waiting
    lastEvent,      \* the loop iteration the latest step performed, if it was one:
                    \* what it received and every call it made
    pc,             \* per producer: "idle", "select" (in the select of Submit), "done"
    req,            \* per producer: the Response its call sends
    pch,            \* per producer: the channel its select sends to
    pctx,           \* per producer: its call's context is cancelled
    result,         \* per producer: "none", "nil" or "ctxerr", what the call returned
    metFull,        \* per producer: its select found the channel at capacity
    metDone         \* per producer: its context was cancelled when it was called

\* the configuration, which no step changes
cfgVars == <<Group, cfgIdle>>

\* what only the start of Do changes
startVars == <<chatID, resolveCalls, subscribed>>

\* what only msgs.once changes
onceVars == <<onceDone, msgsCh, IdleDuration>>

loopVars ==
    <<cfgVars, startVars, onceVars, chans, doPC, woken, doErr, ctxDone, updates,
      updatesClosed, waited>>

listenerVars ==
    <<loopVars, lastEvent, pc, req, pch, pctx, result, metFull, metDone>>

producerVars == <<pc, req, pch, pctx, result, metFull, metDone>>

(***************************************************************************)
(* Errors are texts, modelled as sequences of words.                       *)
(***************************************************************************)
\* strings.Contains
Contains(s, substr) ==
    \E i \in 0..(Len(s) - Len(substr)) : SubSeq(s, i + 1, i + Len(substr)) = substr

CantParseEntities == <<"Bad Request:", "can't parse entities:">>

\* what TbAPI.Send answers: no error, or one of these errors
ErrCantParse == <<"Bad Request:", "can't parse entities:", "can't find end of the entity">>
ErrChatNotFound == <<"Bad Request:", "chat not found">>
SendErrors == {<<>>, ErrCantParse, ErrChatNotFound}

\* the answers to the first Send and to the Send that may follow a rejected
\* markup
SendAnswers ==
    {a \in SendErrors \X SendErrors : a[1] = ErrCantParse \/ a[2] = <<>>}

\* those of them that differ for a Response: none is asked for a Response that
\* is not sent
AnswersTo(resp) == IF resp.Send THEN SendAnswers ELSE {<<<<>>, <<>>>>}

(***************************************************************************)
(* The calls the loop makes on its collaborators, as it makes them.        *)
(***************************************************************************)
NoSend == [ChatID |-> 0, Text |-> "", ParseMode |-> "", ReplyTo |-> 0, err |-> <<>>]

SaveCall(m) == [op |-> "Save", msg |-> m, send |-> NoSend]

OnMessageCall(m) == [op |-> "OnMessage", msg |-> m, send |-> NoSend]

SendCall(tbMsg, err) ==
    [op |-> "Send", msg |-> ZeroMessage,
     send |-> [ChatID |-> tbMsg.ChatID, Text |-> tbMsg.Text,
               ParseMode |-> tbMsg.ParseMode, ReplyTo |-> tbMsg.ReplyTo, err |-> err]]

NoEvent ==
    [kind |-> "none", update |-> Nil, resp |-> ZeroResponse, chat |-> 0,
     calls |-> <<>>, failed |-> FALSE, waited |-> 0]

\* the tbapi.Message the transport returns for a message it delivered
BotUser == [ID |-> 1, UserName |-> "bot", FirstName |-> "super", LastName |-> "bot"]

SentMessage(tbMsg) ==
    [ZeroWireMessage EXCEPT !.MessageID = 9, !.Date = 2,
                            !.Chat = [ID |-> tbMsg.ChatID, Type |-> "supergroup"],
                            !.Text = tbMsg.Text, !.From = Some(BotUser)]

SaveBotMessageAnyChat(msg, fromChat, target) == <<SaveCall(Transform(msg))>>

\* (l *TelegramListener) saveBotMessage
SaveBotMessage(msg, fromChat, target) ==
    IF fromChat # target THEN <<>> ELSE <<SaveCall(Transform(msg))>>

\* the condition of the plain-text retry in sendBotResponse
ShouldRetryAnyMode(mode, err) == Contains(err, CantParseEntities)

ShouldRetry(mode, err) == mode = ModeMarkdown /\ Contains(err, CantParseEntities)

\* the parse mode sendBotResponse gives the outbound message
SendMode(resp) == IF resp.ParseMode # "" THEN resp.ParseMode ELSE ModeMarkdown

\* sendBotResponse returns nil at once for a Response that is not to be sent
SkipsSendAlways(resp) == FALSE

SkipsSend(resp) == ~resp.Send

\* tbapi.NewMessage(chatID, text)
NewMessageNoChat(chat, text) ==
    [ChatID |-> 0, Text |-> text, ParseMode |-> "", ReplyTo |-> 0]

NewMessage(chat, text) ==
    [ChatID |-> chat, Text |-> text, ParseMode |-> "", ReplyTo |-> 0]

(***************************************************************************)
(* (l *TelegramListener) sendBotResponse(resp, chatID): the calls it makes *)
(* and whether it returns an error.  err1 and err2 are the transport's     *)
(* answers to the first Send and to the retry.                             *)
(***************************************************************************)
SendBotResponse(resp, chat, err1, err2, target) ==
    IF SkipsSend(resp) THEN [calls |-> <<>>, failed |-> FALSE]
    ELSE LET tbMsg == [NewMessage(chat, resp.Text) EXCEPT
                          !.ParseMode = SendMode(resp), !.ReplyTo = resp.ReplyTo]
             retry == err1 # <<>> /\ ShouldRetry(tbMsg.ParseMode, err1)
             tbMsg2 == [tbMsg EXCEPT !.ParseMode = ModeNone]
             sends == IF retry THEN <<SendCall(tbMsg, err1), SendCall(tbMsg2, err2)>>
                      ELSE <<SendCall(tbMsg, err1)>>
             err == IF retry THEN err2 ELSE err1
             sent == IF retry THEN tbMsg2 ELSE tbMsg
         IN IF err # <<>> THEN [calls |-> sends, failed |-> TRUE]
            ELSE [calls |-> sends \o SaveBotMessage(SentMessage(sent), chat, target),
                  failed |-> FALSE]

(***************************************************************************)
(* Inputs of the listener.                                                 *)
(***************************************************************************)
\* Group as configured: a numeric literal, or a public group name
NumericGroup == <<"-", "1", "0", "0">>
Groups == {NumericGroup, <<"r", "t">>}

\* IdleDuration as configured: unset, or 20 seconds
ConfiguredIdle == {0, 20}

\* what TbAPI.GetChat answers: the chat, or an error
GetChatAnswers == {[ok |-> TRUE, ID |-> -100], [ok |-> FALSE, ID |-> 0]}

Alice == [ID |-> 5, UserName |-> "alice", FirstName |-> "Al", LastName |-> "Ice"]

\* the updates the transport delivers: one without a message, and messages
\* from the group, from another group and from no chat, of either chat type
WireMessages ==
    {[ZeroWireMessage EXCEPT !.MessageID = 7, !.Date = 1, !.Text = "ping!",
                             !.From = Some(Alice), !.Chat = [ID |-> c, Type |-> t]] :
        <<c, t>> \in {<<0, "supergroup">>, <<-100, "private">>,
                      <<-100, "supergroup">>, <<-200, "supergroup">>}}

Updates == {[Message |-> Nil]} \cup {[Message |-> Some(m)] : m \in WireMessages}

\* formatting spans and photo sizes of a message
Bold == [Type |-> "bold", Offset |-> 0, Length |-> 4, URL |-> "", User |-> Nil]
Mention ==
    [Type |-> "text_mention", Offset |-> 5, Length |-> 2, URL |-> "",
     User |-> Some(Alice)]
SmallSize == [FileID |-> "small", Width |-> 90, Height |-> 60]
LargeSize == [FileID |-> "large", Width |-> 900, Height |-> 600]

\* messages of the group and of a topic of it, with no, one or two spans, no,
\* one or two photo sizes, and a caption with or without a span
RichMessages ==
    {[ZeroWireMessage EXCEPT !.MessageID = 7, !.Date = 1, !.Text = "ping!",
                             !.From = Some(Alice),
                             !.Chat = [ID |-> -100, Type |-> "supergroup"],
                             !.MessageThreadID = th,
                             !.Entities = es, !.Photo = ph, !.Caption = "look",
                             !.CaptionEntities = ce] :
        th \in {0, 5},
        es \in {<<>>, <<Bold>>, <<Bold, Mention>>},
        ph \in {<<>>, <<LargeSize>>, <<SmallSize, LargeSize>>},
        ce \in {<<>>, <<Bold>>}}

RichUpdates == {[Message |-> Some(m)] : m \in RichMessages}

\* what the Dispatcher (Bots.OnMessage) answers
BotResponses ==
    LET pong == [ZeroResponse EXCEPT !.Text = "pong", !.Send = TRUE]
        ban == [pong EXCEPT !.Text = "banned", !.BanInterval = 3600, !.ReplyTo = 7,
                            !.User = TransformUser(Alice)]
    IN {ZeroResponse,
        [ban EXCEPT !.Send = FALSE, !.Pin = TRUE, !.ParseMode = ModeHTML,
                    !.ChannelID = 3],
        pong,
        [pong EXCEPT !.ParseMode = ModeMarkdown],
        [pong EXCEPT !.ParseMode = ModeHTML],
        ban}

\* the texts given to Submit and SubmitHTML
Texts == {"<b>news</b><script>"}

\* notify.TelegramSupportedHTML (go-pkgz/notify) on these texts: the tags
\* Telegram does not support are removed
TelegramSupportedHTML(text) ==
    IF text = "<b>news</b><script>" THEN "<b>news</b>" ELSE text

(***************************************************************************)
(* Do, lines 55-73: resolve the chat id, run msgs.once, subscribe.         *)
(***************************************************************************)
GetChatIDAlwaysAsks(group, getChat) ==
    IF getChat.ok THEN [ok |-> TRUE, id |-> getChat.ID, asked |-> TRUE]
    ELSE [ok |-> FALSE, id |-> 0, asked |-> TRUE]

\* (l *TelegramListener) getChatID; getChat is the transport's answer, asked
\* only when Group is no number
GetChatID(group, getChat) ==
    LET parsed == ParseInt(group)
    IN IF parsed.ok THEN [ok |-> TRUE, id |-> parsed.value, asked |-> FALSE]
       ELSE IF getChat.ok THEN [ok |-> TRUE, id |-> getChat.ID, asked |-> TRUE]
       ELSE [ok |-> FALSE, id |-> 0, asked |-> TRUE]

\* sync.Once.Do runs its function only when none has run before
OnceRunsAlways(done) == TRUE

OnceRuns(done) == ~done

\* make(chan bot.Response, 100): a new, empty channel
MakeChan(cs) == Append(cs, <<>>)

\* the idle duration Do's once function leaves
DefaultedIdle(d) == IF d = 0 THEN DefaultIdleSeconds ELSE d

DoStart(getChat) ==
    /\ doPC = "init"
    /\ LET r == GetChatID(Group, getChat)
       IN /\ chatID' = r.id
          /\ resolveCalls' = resolveCalls + (IF r.asked THEN 1 ELSE 0)
          /\ IF ~r.ok
             THEN /\ doPC' = "returned"
                  /\ doErr' = "chatid"
                  /\ UNCHANGED <<onceVars, chans, subscribed>>
             ELSE /\ IF OnceRuns(onceDone)
                     THEN /\ chans' = MakeChan(chans)
                          /\ msgsCh' = Len(chans) + 1
                          /\ IdleDuration' = DefaultedIdle(IdleDuration)
                     ELSE UNCHANGED <<chans, msgsCh, IdleDuration>>
                  /\ onceDone' = TRUE
                  /\ subscribed' = TRUE
                  /\ doPC' = "select"
                  /\ doErr' = "none"
    /\ lastEvent' = NoEvent
    /\ UNCHANGED <<cfgVars, woken, ctxDone, updates, updatesClosed, waited>>
    /\ UNCHANGED producerVars
    /\ UNCHANGED <<histVars, banVars>>

(***************************************************************************)
(* Do, lines 75-134: the select loop.  A select that finds cases ready     *)
(* takes any one of them; a select that finds none blocks, and the first   *)
(* case to become ready wakes it and is the case it takes.  One action per *)
(* case runs the whole case, and leaves Do at its next select.             *)
(***************************************************************************)
\* a select that looks at the outbound channel only when no update waits
MsgReadyAfterUpdates ==
    msgsCh # 0 /\ chans[msgsCh] # <<>> /\ updates = <<>> /\ ~updatesClosed

\* the outbound channel holds a Response
MsgReady == msgsCh # 0 /\ chans[msgsCh] # <<>>

\* the update channel holds an update, or is closed
UpdateReady == updates # <<>> \/ updatesClosed

\* the timer of this select has expired
TimerReady == waited >= IdleDuration

\* some case of the select can proceed
SelectReady == ctxDone \/ UpdateReady \/ MsgReady \/ TimerReady

\* the select takes the case: it is ready when the select is evaluated, or it
\* is the one that woke the blocked select
Takes(case, ready) ==
    \/ doPC = "select" /\ ready
    \/ doPC = "blocked" /\ woken = case

\* what the case that became ready does to a select: it wakes a blocked one
\* that nothing woke before
Wake(case) == IF doPC = "blocked" /\ woken = "none" THEN case ELSE woken

\* the select finds no case ready and blocks
Block ==
    /\ doPC = "select"
    /\ ~SelectReady
    /\ doPC' = "blocked"
    /\ lastEvent' = NoEvent
    /\ UNCHANGED <<cfgVars, startVars, onceVars, chans, woken, doErr, ctxDone,
                   updates, updatesClosed, waited>>
    /\ UNCHANGED producerVars
    /\ UNCHANGED <<histVars, banVars>>

\* the updates Do drops (lines 86-106).  json.Marshal of a tbapi.Message, a
\* struct of strings, numbers and pointers to such structs, returns no error.
DroppedKeepsPrivate(update) ==
    \/ IsNil(update.Message)
    \/ update.Message[1].Chat.ID = 0

Dropped(update) ==
    \/ IsNil(update.Message)
    \/ update.Message[1].Chat.ID = 0
    \/ update.Message[1].Chat.Type = "private"

\* the order of an update's calls: save, dispatch, respond
UpdateCallsDispatchFirst(saved, dispatched, responded) ==
    dispatched \o saved \o responded

UpdateCalls(saved, dispatched, responded) == saved \o dispatched \o responded

\* the calls of the idle case: dispatch, respond
IdleCallsSaved(msg, responded) ==
    <<SaveCall(msg), OnMessageCall(msg)>> \o responded

IdleCalls(msg, responded) == <<OnMessageCall(msg)>> \o responded

\* one iteration of the loop: the case taken, what it received, the calls it
\* made, and the time its select had waited
Event(kind, update, resp, chat, calls, failed) ==
    [kind |-> kind, update |-> update, resp |-> resp,
     chat |-> chat, calls |-> calls, failed |-> failed, waited |-> waited]

\* a receive from a channel: the oldest value in it, and what it leaves
RecvLast(queue) ==
    [item |-> queue[Len(queue)], rest |-> SubSeq(queue, 1, Len(queue) - 1)]

Recv(queue) == [item |-> Head(queue), rest |-> Tail(queue)]

\* time.After is called anew by every select: nothing of the wait of the
\* iteration before is kept
NewTimerKeeps(w) == w

NewTimer(w) == 0

\* after sendBotResponse the case ends, whether it returned an error (which is
\* logged) or not, and the loop goes on
AfterResponseReturns(failed) ==
    IF failed THEN [pc |-> "returned", err |-> "send"]
    ELSE [pc |-> "select", err |-> "none"]

AfterResponse(failed) == [pc |-> "select", err |-> "none"]

\* case update, ok := <-updates, with ok
RecvUpdate(botResp, err1, err2) ==
    /\ Takes("update", updates # <<>>)
    /\ updates # <<>>
    /\ LET update == Recv(updates).item
           fromChat == update.Message[1].Chat.ID
           msg == Transform(update.Message[1])
           saved == IF fromChat = chatID THEN <<SaveCall(msg)>> ELSE <<>>
           sbr == SendBotResponse(botResp, fromChat, err1, err2, chatID)
           ev == IF Dropped(update)
                 THEN Event("drop", Some(update), ZeroResponse, 0, <<>>, FALSE)
                 ELSE Event("update", Some(update), botResp, fromChat,
                            UpdateCalls(saved, <<OnMessageCall(msg)>>, sbr.calls),
                            sbr.failed)
       IN /\ lastEvent' = ev
          /\ doPC' = AfterResponse(ev.failed).pc
          /\ doErr' = AfterResponse(ev.failed).err
    /\ updates' = Recv(updates).rest
    /\ woken' = "none"
    /\ waited' = NewTimer(waited)
    /\ UNCHANGED <<cfgVars, startVars, onceVars, chans, ctxDone, updatesClosed>>
    /\ UNCHANGED producerVars
    /\ UNCHANGED <<histVars, banVars>>

\* what Do does when the update channel is closed: return an error
OnClosedContinue == [pc |-> "select", err |-> "none"]

OnClosed == [pc |-> "returned", err |-> "closed"]

\* case update, ok := <-updates, with !ok
RecvClosed ==
    /\ Takes("update", updates = <<>> /\ updatesClosed)
    /\ updates = <<>>
    /\ updatesClosed
    /\ doPC' = OnClosed.pc
    /\ doErr' = OnClosed.err
    /\ woken' = "none"
    /\ lastEvent' = NoEvent
    /\ UNCHANGED <<cfgVars, startVars, onceVars, chans, ctxDone, updates,
                   updatesClosed, waited>>
    /\ UNCHANGED producerVars
    /\ UNCHANGED <<histVars, banVars>>

\* case resp := <-l.msgs.ch
RecvSubmission(err1, err2) ==
    /\ Takes("msg", MsgReady)
    /\ MsgReady
    /\ LET resp == Recv(chans[msgsCh]).item
           sbr == SendBotResponse(resp, chatID, err1, err2, chatID)
       IN /\ lastEvent' = Event("submission", Nil, resp, chatID, sbr.calls, sbr.failed)
          /\ doPC' = AfterResponse(sbr.failed).pc
          /\ doErr' = AfterResponse(sbr.failed).err
    /\ chans' = [chans EXCEPT ![msgsCh] = Recv(@).rest]
    /\ woken' = "none"
    /\ waited' = NewTimer(waited)
    /\ UNCHANGED <<cfgVars, startVars, onceVars, ctxDone, updates, updatesClosed>>
    /\ UNCHANGED producerVars
    /\ UNCHANGED <<histVars, banVars>>

\* case <-time.After(l.IdleDuration)
IdleTimeout(botResp, err1, err2) ==
    /\ Takes("timer", TimerReady)
    /\ LET sbr == SendBotResponse(botResp, chatID, err1, err2, chatID)
       IN /\ lastEvent' = Event("idle", Nil, botResp, chatID,
                                IdleCalls(IdleMessage, sbr.calls), sbr.failed)
          /\ doPC' = AfterResponse(sbr.failed).pc
          /\ doErr' = AfterResponse(sbr.failed).err
    /\ woken' = "none"
    /\ waited' = NewTimer(waited)
    /\ UNCHANGED <<cfgVars, startVars, onceVars, chans, ctxDone, updates,
                   updatesClosed>>
    /\ UNCHANGED producerVars
    /\ UNCHANGED <<histVars, banVars>>

\* what Do does in case <-ctx.Done(): return ctx.Err()
OnCtxDoneBreak == [pc |-> "select", err |-> "ctx"]

OnCtxDone == [pc |-> "returned", err |-> "ctx"]

\* case <-ctx.Done()
RecvCtxDone ==
    /\ Takes("ctx", ctxDone)
    /\ doPC' = OnCtxDone.pc
    /\ doErr' = OnCtxDone.err
    /\ woken' = "none"
    /\ lastEvent' = NoEvent
    /\ UNCHANGED <<cfgVars, startVars, onceVars, chans, ctxDone, updates,
                   updatesClosed, waited>>
    /\ UNCHANGED producerVars
    /\ UNCHANGED <<histVars, banVars>>

\* time passes while the select is blocked; the timer wakes it on expiry
Tick ==
    /\ doPC = "blocked"
    /\ woken = "none"
    /\ waited' = waited + TickSeconds
    /\ woken' = IF waited' >= IdleDuration THEN "timer" ELSE "none"
    /\ lastEvent' = NoEvent
    /\ UNCHANGED <<cfgVars, startVars, onceVars, chans, doPC, doErr, ctxDone, updates,
                   updatesClosed>>
    /\ UNCHANGED producerVars
    /\ UNCHANGED <<histVars, banVars>>

(***************************************************************************)
(* The environment of Do: the transport and the owner of the context.      *)
(***************************************************************************)
UpdateArrives(update) ==
    /\ subscribed
    /\ ~updatesClosed
    /\ Len(updates) < MaxPendingUpdates
    /\ updates' = Append(updates, update)
    /\ woken' = Wake("update")
    /\ lastEvent' = NoEvent
    /\ UNCHANGED <<cfgVars, startVars, onceVars, chans, doPC, doErr, ctxDone,
                   updatesClosed, waited>>
    /\ UNCHANGED producerVars
    /\ UNCHANGED <<histVars, banVars>>

CloseUpdates ==
    /\ subscribed
    /\ ~updatesClosed
    /\ updatesClosed' = TRUE
    /\ woken' = Wake("update")
    /\ lastEvent' = NoEvent
    /\ UNCHANGED <<cfgVars, startVars, onceVars, chans, doPC, doErr, ctxDone, updates,
                   waited>>
    /\ UNCHANGED producerVars
    /\ UNCHANGED <<histVars, banVars>>

CancelDo ==
    /\ ~ctxDone
    /\ ctxDone' = TRUE
    /\ woken' = Wake("ctx")
    /\ lastEvent' = NoEvent
    /\ UNCHANGED <<cfgVars, startVars, onceVars, chans, doPC, doErr, updates,
                   updatesClosed, waited>>
    /\ UNCHANGED producerVars
    /\ UNCHANGED <<histVars, banVars>>

(***************************************************************************)
(* Submit and SubmitHTML: the call up to its select, and the two cases of  *)
(* the select.                                                             *)
(***************************************************************************)
\* a send on a buffered channel proceeds while the buffer has room
CanSendAtCap(queue) == Len(queue) <= ChanCap

CanSend(queue) == Len(queue) < ChanCap

\* a Submit whose Response does not ask to be sent
SubmitResponseNoSend(text, pin) ==
    [ZeroResponse EXCEPT !.Text = text, !.Pin = pin, !.Preview = TRUE]

\* the Response Submit sends
SubmitResponse(text, pin) ==
    [ZeroResponse EXCEPT !.Text = text, !.Pin = pin, !.Send = TRUE, !.Preview = TRUE]

\* the Response SubmitHTML sends
SubmitHTMLResponse(text, pin) ==
    [ZeroResponse EXCEPT !.Text = TelegramSupportedHTML(text), !.Pin = pin,
                         !.Send = TRUE, !.ParseMode = ModeHTML, !.Preview = FALSE]

\* the call of p runs msgs.once and enters its select with resp to send;
\* cancelled: the context it was given is cancelled already
EnterSelect(p, resp, cancelled) ==
    /\ pc[p] # "select"
    /\ IF OnceRuns(onceDone)
       THEN /\ chans' = MakeChan(chans)
            /\ msgsCh' = Len(chans) + 1
       ELSE UNCHANGED <<chans, msgsCh>>
    /\ onceDone' = TRUE
    /\ pc' = [pc EXCEPT ![p] = "select"]
    /\ req' = [req EXCEPT ![p] = resp]
    /\ pch' = [pch EXCEPT ![p] = msgsCh']
    /\ pctx' = [pctx EXCEPT ![p] = cancelled]
    /\ result' = [result EXCEPT ![p] = "none"]
    /\ metFull' = [metFull EXCEPT ![p] = ~CanSend(chans'[msgsCh'])]
    /\ metDone' = [metDone EXCEPT ![p] = cancelled]
    /\ lastEvent' = NoEvent
    /\ UNCHANGED <<cfgVars, startVars, IdleDuration, doPC, woken, doErr, ctxDone,
                   updates, updatesClosed, waited>>
    /\ UNCHANGED <<histVars, banVars>>

Submit(p, text, pin, cancelled) == EnterSelect(p, SubmitResponse(text, pin), cancelled)

SubmitHTML(p, text, pin, cancelled) ==
    EnterSelect(p, SubmitHTMLResponse(text, pin), cancelled)

\* case l.msgs.ch <- resp, then return nil
ProducerSend(p) ==
    /\ pc[p] = "select"
    /\ pch[p] # 0
    /\ CanSend(chans[pch[p]])
    /\ chans' = [chans EXCEPT ![pch[p]] = Append(@, req[p])]
    /\ woken' = IF pch[p] = msgsCh THEN Wake("msg") ELSE woken
    /\ pc' = [pc EXCEPT ![p] = "done"]
    /\ result' = [result EXCEPT ![p] = "nil"]
    /\ req' = [req EXCEPT ![p] = ZeroResponse]
    /\ pch' = [pch EXCEPT ![p] = 0]
    /\ pctx' = [pctx EXCEPT ![p] = FALSE]
    /\ lastEvent' = NoEvent
    /\ UNCHANGED <<metFull, metDone>>
    /\ UNCHANGED <<cfgVars, startVars, onceVars, doPC, doErr, ctxDone, updates,
                   updatesClosed, waited>>
    /\ UNCHANGED <<histVars, banVars>>

\* case <-ctx.Done(), then return ctx.Err()
ProducerCtxDone(p) ==
    /\ pc[p] = "select"
    /\ pctx[p]
    /\ pc' = [pc EXCEPT ![p] = "done"]
    /\ result' = [result EXCEPT ![p] = "ctxerr"]
    /\ req' = [req EXCEPT ![p] = ZeroResponse]
    /\ pch' = [pch EXCEPT ![p] = 0]
    /\ pctx' = [pctx EXCEPT ![p] = FALSE]
    /\ lastEvent' = NoEvent
    /\ UNCHANGED <<metFull, metDone>>
    /\ UNCHANGED loopVars
    /\ UNCHANGED <<histVars, banVars>>

\* the owner of the call's context cancels it while the call is in its select
CancelProducer(p) ==
    /\ pc[p] = "select"
    /\ ~pctx[p]
    /\ pctx' = [pctx EXCEPT ![p] = TRUE]
    /\ lastEvent' = NoEvent
    /\ UNCHANGED <<pc, req, pch, result, metFull, metDone>>
    /\ UNCHANGED loopVars
    /\ UNCHANGED <<histVars, banVars>>

\* Responses in the outbound channel
Pending == IF msgsCh = 0 THEN 0 ELSE Len(chans[msgsCh])

(***************************************************************************)
(* bot.Message values stored in the history: only ChatID and Text matter   *)
(* to the buffer.                                                          *)
(***************************************************************************)
HistChatIDs == {ChatKey(0, 0), ChatKey(-100, 0)}
HistTexts == {"x", "y"}
HistMessages == [ChatID : HistChatIDs, Text : HistTexts]

(***************************************************************************)
(* NewLimitedMessageHistory(limit)                                         *)
(***************************************************************************)
NewLimitedMessageHistory(lim) ==
    [limit |-> lim, chats |-> [c \in {} |-> [count |-> 0, messages |-> <<>>]]]

NewLegacyHistory(lim) == [limit |-> lim, count |-> 0, messages |-> <<>>]

(***************************************************************************)
(* The body shared by both Add methods: count++, append, and drop the      *)
(* first element when the length exceeds the limit.                        *)
(***************************************************************************)
AppendDropLast(h, message, lim) ==
    LET appended == Append(h.messages, message)
    IN [count |-> h.count + 1,
        messages |-> IF Len(appended) > lim
                     THEN SubSeq(appended, 1, Len(appended) - 1) ELSE appended]

AppendBounded(h, message, lim) ==
    LET appended == Append(h.messages, message)
    IN [count |-> h.count + 1,
        messages |-> IF Len(appended) > lim
                     THEN SliceFrom(appended, 1) ELSE appended]

\* the entry of the chat, created empty when the key is not in the map
ChatHistoryOf(cs, key) ==
    IF key \in DOMAIN cs THEN cs[key] ELSE [count |-> 0, messages |-> <<>>]

HistoryAddToAll(cs, message, lim) ==
    [c \in DOMAIN cs \cup {message.ChatID} |->
        AppendBounded(ChatHistoryOf(cs, c), message, lim)]

\* (l *LimitedMessageHistory) Add(message) of openaihistory.go
HistoryAdd(cs, message, lim) ==
    [c \in DOMAIN cs \cup {message.ChatID} |->
        IF c = message.ChatID
        THEN AppendBounded(ChatHistoryOf(cs, c), message, lim)
        ELSE cs[c]]

\* (l *LimitedMessageHistory) Add(message) of the single-sequence form
LegacyAdd(h, message) ==
    [limit |-> h.limit] @@ AppendBounded(h, message, h.limit)

\* GetMessagesByChatID: nil (the empty sequence) for an unknown key
GetMessagesByChatID(cs, key) ==
    IF key \notin DOMAIN cs THEN <<>> ELSE cs[key].messages

\* rand.Intn(n): an integer of [0, n)
Intn(n) == 0..(n - 1)

\* GetRandomMessage(chatID) of openaihistory.go; r is what rand.Intn gives
HistoryGetRandomMessageNeverNil(cs, key, r) ==
    IF key \notin DOMAIN cs \/ Len(cs[key].messages) = 0
    THEN Some([ChatID |-> key, Text |-> ""])
    ELSE Some(cs[key].messages[r + 1])

HistoryGetRandomMessage(cs, key, r) ==
    IF key \notin DOMAIN cs \/ Len(cs[key].messages) = 0 THEN Nil
    ELSE Some(cs[key].messages[r + 1])

\* GetRandomMessage() of the single-sequence form
LegacyGetRandomMessage(h, r) ==
    IF Len(h.messages) = 0 THEN Nil ELSE Some(h.messages[r + 1])

\* the conversations asked for: those added to, and one never added to
QueryChatIDs == HistChatIDs \cup {ChatKey(-200, 0)}

\* no call of GetRandomMessage was the last step
NoPick == [form |-> "none", key |-> <<>>, result |-> Nil]

(***************************************************************************)
(* Actions on the history buffers.                                         *)
(***************************************************************************)
AddedTo(key) == SelectSeq(added, LAMBDA m : m.ChatID = key)

Add(message) ==
    /\ Len(added) < MaxAdds
    /\ chats' = HistoryAdd(chats, message, limit)
    /\ added' = Append(added, message)
    /\ picked' = NoPick
    /\ UNCHANGED <<limit, legacy, legacyAdded>>
    /\ UNCHANGED <<listenerVars, banVars>>

AddLegacy(message) ==
    /\ Len(legacyAdded) < MaxAdds
    /\ legacy' = LegacyAdd(legacy, message)
    /\ legacyAdded' = Append(legacyAdded, message)
    /\ picked' = NoPick
    /\ UNCHANGED <<limit, chats, added>>
    /\ UNCHANGED <<listenerVars, banVars>>

\* rand.Intn is called only for a buffer that is not empty; for an empty one
\* the index is not used
GetRandomMessage(key) ==
    /\ \E r \in Intn(Len(GetMessagesByChatID(chats, key))) \cup {0} :
          picked' = [form |-> "chats", key |-> key,
                     result |-> HistoryGetRandomMessage(chats, key, r)]
    /\ UNCHANGED <<limit, chats, added, legacy, legacyAdded>>
    /\ UNCHANGED <<listenerVars, banVars>>

GetRandomMessageLegacy ==
    /\ \E r \in Intn(Len(legacy.messages)) \cup {0} :
          picked' = [form |-> "legacy", key |-> <<>>,
                     result |-> LegacyGetRandomMessage(legacy, r)]
    /\ UNCHANGED <<limit, chats, added, legacy, legacyAdded>>
    /\ UNCHANGED <<listenerVars, banVars>>

NextHistory ==
    \/ \E m \in HistMessages : Add(m)
    \/ \E m \in HistMessages : AddLegacy(m)

(***************************************************************************)
(* getBanUsername: the name shown for the target of a ban.                 *)
(***************************************************************************)
\* fmt.Sprintf("%v", v) of a struct value: the fields in declaration order,
\* separated by a space, in braces; an integer field in decimal
FormatUser(u) ==
    <<"{">> \o Itoa(u.ID) \o <<" ", u.Username, " ", u.DisplayName, "}">>

FormatSenderChat(c) == <<"{">> \o Itoa(c.ID) \o <<" ", c.UserName, "}">>

\* the two ways a call ends: with a string, or in the run-time panic of a
\* field read through a nil pointer
Returned(str) == [panic |-> FALSE, value |-> str]
NilDereference == [panic |-> TRUE, value |-> <<>>]

\* the handle read at part_000:148-150, the replied-to message being there
ReplyHandle(msg) ==
    IF ~IsNil(msg.ReplyToMessage[1].SenderChat)
    THEN msg.ReplyToMessage[1].SenderChat[1].UserName
    ELSE ""

\* getBanUsername(resp, update).  update.Message and
\* update.Message.ReplyToMessage are pointers the function reads through
\* without a nil test; the right operand of && at line 148 is evaluated only
\* when the handle is still blank.
GetBanUsername(resp, update) ==
    IF resp.ChannelID = 0 THEN Returned(FormatUser(resp.User))
    ELSE IF IsNil(update.Message) THEN NilDereference
    ELSE LET msg == update.Message[1]
             own == IF ~IsNil(msg.SenderChat) THEN msg.SenderChat[1].UserName ELSE ""
         IN IF own # ""
            THEN Returned(FormatSenderChat([ID |-> resp.ChannelID, UserName |-> own]))
            ELSE IF IsNil(msg.ReplyToMessage) THEN NilDereference
            ELSE Returned(FormatSenderChat([ID |-> resp.ChannelID,
                                            UserName |-> ReplyHandle(msg)]))

\* arguments of getBanUsername: bans of a user and of a channel, on updates
\* with every combination of sender chat and replied-to message
BanChannelID == 7
BanUsers == {ZeroUser, TransformUser(Alice)}
BanResponses ==
    {[ZeroResponse EXCEPT !.Send = TRUE, !.BanInterval = 3600,
                          !.User = u, !.ChannelID = c] :
        u \in BanUsers, c \in {0, BanChannelID}}
BanSenderChats ==
    {Nil, Some([ID |-> BanChannelID, UserName |-> ""]),
          Some([ID |-> BanChannelID, UserName |-> "chan"])}
BanReplies ==
    {Nil} \cup {Some([ZeroWireMessage EXCEPT !.MessageID = 1, !.SenderChat = sc]) :
                   sc \in {Nil, Some([ID |-> 9, UserName |-> ""]),
                                Some([ID |-> 9, UserName |-> "orig"])}}
BanUpdates ==
    {[Message |-> Nil]} \cup
    {[Message |-> Some([ZeroWireMessage EXCEPT !.MessageID = 2,
                                               !.Chat = [ID |-> -100, Type |-> "supergroup"],
                                               !.SenderChat = sc,
                                               !.ReplyToMessage = rt])] :
        sc \in BanSenderChats, rt \in BanReplies}

NoBan == [resp |-> ZeroResponse, update |-> [Message |-> Nil], called |-> FALSE,
          out |-> Returned(<<>>)]

\* the arguments are chosen, and then the function is called with them
ChooseBan(resp, update) ==
    /\ banCall = NoBan
    /\ banCall' = [resp |-> resp, update |-> update, called |-> FALSE,
               out |-> Returned(<<>>)]
    /\ UNCHANGED <<histVars, listenerVars>>

CallGetBanUsername ==
    /\ banCall # NoBan
    /\ ~banCall.called
    /\ banCall' = [banCall EXCEPT !.called = TRUE,
                          !.out = GetBanUsername(banCall.resp, banCall.update)]
    /\ UNCHANGED <<histVars, listenerVars>>

(***************************************************************************)
(* Initial states and specifications.                                      *)
(***************************************************************************)
\* a TelegramListener as constructed, with its Group and IdleDuration set
NewListener(group, idle) ==
    /\ Group = group
    /\ cfgIdle = idle
    /\ IdleDuration = idle
    /\ chatID = 0
    /\ onceDone = FALSE
    /\ chans = <<>>
    /\ msgsCh = 0
    /\ doPC = "init"
    /\ woken = "none"
    /\ doErr = "none"
    /\ ctxDone = FALSE
    /\ resolveCalls = 0
    /\ subscribed = FALSE
    /\ updates = <<>>
    /\ updatesClosed = FALSE
    /\ waited = 0
    /\ lastEvent = NoEvent
    /\ pc = [p \in Procs |-> "idle"]
    /\ req = [p \in Procs |-> ZeroResponse]
    /\ pch = [p \in Procs |-> 0]
    /\ pctx = [p \in Procs |-> FALSE]
    /\ result = [p \in Procs |-> "none"]
    /\ metFull = [p \in Procs |-> FALSE]
    /\ metDone = [p \in Procs |-> FALSE]

NewHistories(lim) ==
    /\ limit = lim
    /\ chats = NewLimitedMessageHistory(lim).chats
    /\ added = <<>>
    /\ legacy = NewLegacyHistory(lim)
    /\ legacyAdded = <<>>
    /\ picked = NoPick

vars == <<histVars, listenerVars, banVars>>

\* the history buffers alone, of every capacity up to MaxLimit
InitHistory ==
    /\ \E lim \in 0..MaxLimit : NewHistories(lim)
    /\ NewListener(NumericGroup, 0)
    /\ banCall = NoBan

SpecHistory == InitHistory /\ [][NextHistory]_vars

\* Add and GetRandomMessage on a buffer of either form (a program has one
\* form or the other), of every capacity up to MaxLimit
NextRandom ==
    \/ \E m \in HistMessages : legacyAdded = <<>> /\ Add(m)
    \/ \E m \in HistMessages : added = <<>> /\ AddLegacy(m)
    \/ \E key \in QueryChatIDs : legacyAdded = <<>> /\ GetRandomMessage(key)
    \/ added = <<>> /\ GetRandomMessageLegacy

SpecRandom == InitHistory /\ [][NextRandom]_vars

\* The loop and what it does with each event, for every answer of the
\* Dispatcher and of the transport.  One producer submits, one Response at a
\* time, and its context is never cancelled; Group is the number of the
\* chat or a name the transport may fail to resolve, and IdleDuration is left
\* unset.
Init ==
    /\ \E group \in Groups : NewListener(group, 0)
    /\ NewHistories(MaxLimit)
    /\ banCall = NoBan

Next ==
    \/ \E getChat \in GetChatAnswers : DoStart(getChat)
    \/ \E botResp \in BotResponses : \E a \in AnswersTo(botResp) :
          RecvUpdate(botResp, a[1], a[2])
    \/ RecvClosed
    \/ \E a \in SendAnswers : RecvSubmission(a[1], a[2])
    \/ \E botResp \in BotResponses : \E a \in AnswersTo(botResp) :
          IdleTimeout(botResp, a[1], a[2])
    \/ RecvCtxDone
    \/ Block
    \/ Tick
    \/ \E update \in Updates : UpdateArrives(update)
    \/ CloseUpdates
    \/ CancelDo
    \/ \E p \in LoopProcs, text \in Texts :
          Pending = 0 /\ Submit(p, text, FALSE, FALSE)
    \/ \E p \in LoopProcs, text \in Texts :
          Pending = 0 /\ SubmitHTML(p, text, TRUE, FALSE)
    \/ \E p \in LoopProcs : ProducerSend(p)

Spec == Init /\ [][Next]_vars

\* the transport delivers the message at the first attempt
Delivered == <<>>

\* Do starting in any order with the calls of Submit and SubmitHTML of two
\* goroutines, whose contexts may be cancelled before or during the call, for
\* every Group and IdleDuration; the transport delivers, the Dispatcher has
\* nothing to say when idle, and no update arrives.
InitSubmit ==
    /\ \E group \in Groups, idle \in ConfiguredIdle : NewListener(group, idle)
    /\ NewHistories(MaxLimit)
    /\ banCall = NoBan

NextSubmit ==
    \/ \E getChat \in GetChatAnswers : DoStart(getChat)
    \/ \E p \in Procs, text \in Texts, cancelled \in BOOLEAN :
          Pending < MaxPending /\ Submit(p, text, FALSE, cancelled)
    \/ \E p \in Procs, text \in Texts, cancelled \in BOOLEAN :
          Pending < MaxPending /\ SubmitHTML(p, text, TRUE, cancelled)
    \/ \E p \in Procs : ProducerSend(p)
    \/ \E p \in Procs : ProducerCtxDone(p)
    \/ \E p \in Procs : CancelProducer(p)
    \/ RecvSubmission(Delivered, Delivered)
    \/ IdleTimeout(ZeroResponse, Delivered, Delivered)
    \/ RecvCtxDone
    \/ Block
    \/ Tick
    \/ CancelDo

SpecSubmit == InitSubmit /\ [][NextSubmit]_vars

\* a Response of SubmitHTML is in the outbound channel or on its way to it
HTMLPending ==
    \/ \E p \in Procs : pc[p] = "select" /\ req[p].ParseMode = ModeHTML
    \/ msgsCh # 0 /\ \E i \in 1..Len(chans[msgsCh]) :
                        chans[msgsCh][i].ParseMode = ModeHTML

\* The outbound channel at its capacity: two goroutines submit faster than
\* the loop sends, which receives only from a full channel; SubmitHTML is
\* called on a full channel, one call at a time.  IdleDuration is 20 seconds
\* and never elapses; no update arrives.
InitFull ==
    /\ NewListener(NumericGroup, 20)
    /\ NewHistories(MaxLimit)
    /\ banCall = NoBan

NextFull ==
    \/ \E getChat \in GetChatAnswers : DoStart(getChat)
    \/ \E p \in Procs, text \in Texts, cancelled \in BOOLEAN :
          Submit(p, text, FALSE, cancelled)
    \/ \E p \in Procs, text \in Texts, cancelled \in BOOLEAN :
          Pending = ChanCap /\ ~HTMLPending /\ SubmitHTML(p, text, TRUE, cancelled)
    \/ \E p \in Procs : ProducerSend(p)
    \/ \E p \in Procs : ProducerCtxDone(p)
    \/ \E p \in Procs : CancelProducer(p)
    \/ Pending = ChanCap /\ RecvSubmission(Delivered, Delivered)
    \/ Block

SpecFull == InitFull /\ [][NextFull]_vars

\* transform on the messages of the group, with and without formatting spans
\* and photos: the loop receives them, and the transport delivers what the
\* Dispatcher answers.
InitTransform ==
    /\ NewListener(NumericGroup, 0)
    /\ NewHistories(MaxLimit)
    /\ banCall = NoBan

NextTransform ==
    \/ \E getChat \in GetChatAnswers : DoStart(getChat)
    \/ \E update \in RichUpdates : UpdateArrives(update)
    \/ \E botResp \in BotResponses : RecvUpdate(botResp, Delivered, Delivered)
    \/ Block

SpecTransform == InitTransform /\ [][NextTransform]_vars

\* an IdleDuration of two steps of the clock
LongIdle == 2 * TickSeconds

\* The idle timeout with an IdleDuration that takes two steps of the clock
\* to elapse: updates, a submission or the cancellation may arrive halfway.
\* The transport delivers and the Dispatcher answers or not.
InitIdle ==
    /\ NewListener(NumericGroup, LongIdle)
    /\ NewHistories(MaxLimit)
    /\ banCall = NoBan

NextIdle ==
    \/ \E getChat \in GetChatAnswers : DoStart(getChat)
    \/ \E botResp \in BotResponses : RecvUpdate(botResp, Delivered, Delivered)
    \/ RecvSubmission(Delivered, Delivered)
    \/ \E botResp \in BotResponses : IdleTimeout(botResp, Delivered, Delivered)
    \/ RecvCtxDone
    \/ Block
    \/ Tick
    \/ \E update \in Updates : UpdateArrives(update)
    \/ CancelDo
    \/ \E p \in LoopProcs, text \in Texts :
          Pending = 0 /\ Submit(p, text, FALSE, FALSE)
    \/ \E p \in LoopProcs : ProducerSend(p)

SpecIdle == InitIdle /\ [][NextIdle]_vars


\* getBanUsername alone, on every pair of arguments
InitBan == InitTransform

NextBan ==
    \/ \E resp \in BanResponses, update \in BanUpdates : ChooseBan(resp, update)
    \/ CallGetBanUsername

SpecBan == InitBan /\ [][NextBan]_vars


\* Do running while a goroutine submits and updates keep arriving; the
\* transport may refuse a Send, the context may be cancelled and the update
\* channel closed.
LiveAnswers == {<<Delivered, Delivered>>, <<ErrChatNotFound, Delivered>>}

LiveBotResponses == {[ZeroResponse EXCEPT !.Text = "pong", !.Send = TRUE]}

LiveUpdates == {update \in Updates : ~Dropped(update) /\ update.Message[1].Chat.ID = -100}

InitLive == InitFull

\* the steps of the goroutine that runs Do
DoLoop ==
    \/ \E a \in LiveAnswers : RecvSubmission(a[1], a[2])
    \/ \E botResp \in LiveBotResponses : RecvUpdate(botResp, Delivered, Delivered)
    \/ IdleTimeout(ZeroResponse, Delivered, Delivered)
    \/ RecvClosed
    \/ RecvCtxDone
    \/ Block

NextLive ==
    \/ \E getChat \in GetChatAnswers : DoStart(getChat)
    \/ \E p \in LoopProcs, text \in Texts :
          Pending < MaxPending /\ Submit(p, text, FALSE, FALSE)
    \/ \E p \in LoopProcs, text \in Texts :
          Pending < MaxPending /\ SubmitHTML(p, text, TRUE, FALSE)
    \/ \E p \in LoopProcs : ProducerSend(p)
    \/ \E update \in LiveUpdates : UpdateArrives(update)
    \/ DoLoop
    \/ Tick
    \/ CloseUpdates
    \/ CancelDo

\* The goroutine of Do is scheduled while it can take a step, and a select
\* chooses among its ready cases uniformly at random (the Go specification),
\* so that a case ready at infinitely many selects is taken.
FairLive ==
    /\ WF_vars(DoLoop)
    /\ SF_vars(\E a \in LiveAnswers : RecvSubmission(a[1], a[2]))

SpecLive == InitLive /\ [][NextLive]_vars /\ FairLive

(***************************************************************************)
(* Properties.                                                             *)
(***************************************************************************)
Handled == lastEvent.kind \in {"update", "submission", "idle"}

CallsOf(ev, op) == SelectSeq(ev.calls, LAMBDA c : c.op = op)

\* the calls of an iteration that follow its dispatch to the Dispatcher: those
\* of sendBotResponse (every call, for a submission, which is not dispatched)
AfterDispatch(ev) ==
    IF ev.kind = "submission" THEN ev.calls
    ELSE LET at == CHOOSE i \in 1..Len(ev.calls) : ev.calls[i].op = "OnMessage"
         IN SubSeq(ev.calls, at + 1, Len(ev.calls))

\* C1: after every Add, each conversation retains at most limit messages,
\* exactly the last min(n, limit) of the n added to it, in insertion order,
\* and its counter is n (the single-sequence form: the same of all the
\* messages added); an Add removes at most one retained message, the oldest.
C1_Retained ==
    /\ \A c \in HistChatIDs :
          LET n == Len(AddedTo(c))
              kept == GetMessagesByChatID(chats, c)
          IN /\ Len(kept) <= limit
             /\ kept = LastN(AddedTo(c), Min(n, limit))
             /\ (c \in DOMAIN chats) <=> (n > 0)
             /\ c \in DOMAIN chats => chats[c].count = n
    /\ Len(legacy.messages) <= limit
    /\ legacy.messages = LastN(legacyAdded, Min(Len(legacyAdded), limit))
    /\ legacy.count = Len(legacyAdded)

C1_EvictsOldest(old, new) ==
    \/ new = old
    \/ \E m \in HistMessages : new = Append(old, m)
    \/ \E m \in HistMessages : new = Tail(Append(old, m))

C1_BoundedFIFO ==
    /\ []C1_Retained
    /\ [][/\ \A c \in HistChatIDs :
                C1_EvictsOldest(GetMessagesByChatID(chats, c),
                                GetMessagesByChatID(chats', c))
          /\ C1_EvictsOldest(legacy.messages, legacy'.messages)]_vars

\* an Add has evicted from a conversation of capacity at least 1 after other
\* conversations were added to, and the single-sequence buffer has evicted too
C1_Witness ==
    /\ limit > 0
    /\ \E c \in DOMAIN chats :
          /\ chats[c].count > limit
          /\ Len(chats[c].messages) = limit
          /\ chats[c].messages[1] # AddedTo(c)[1]
    /\ legacy.count > limit

\* C2: a first Send that fails with "Bad Request: can't parse entities:" while
\* its parse mode is Markdown is followed by exactly one more Send, of the same
\* message with no parse mode; after any other failure, or in another mode,
\* there is no second Send and sendBotResponse fails; it fails as well when the
\* retry fails; no Response causes more than two Sends.
C2_RetryOnce ==
    LET sends == CallsOf(lastEvent, "Send")
    IN /\ Len(sends) <= 2
       /\ (Handled /\ lastEvent.resp.Send) =>
             /\ Len(sends) >= 1
             /\ (Len(sends) = 2) <=>
                   /\ sends[1].send.ParseMode = "Markdown"
                   /\ Contains(sends[1].send.err,
                               <<"Bad Request:", "can't parse entities:">>)
             /\ Len(sends) = 2 =>
                   sends[2].send = [sends[1].send EXCEPT !.ParseMode = "",
                                                         !.err = sends[2].send.err]
             /\ lastEvent.failed <=> (sends[Len(sends)].send.err # <<>>)

\* the markup was rejected, the plain-text retry was made and delivered
C2_Witness ==
    LET sends == CallsOf(lastEvent, "Send")
    IN /\ Len(sends) = 2
       /\ sends[1].send.ParseMode = "Markdown"
       /\ sends[2].send.ParseMode = ""
       /\ sends[2].send.err = <<>>
       /\ ~lastEvent.failed

\* C4: for a Response with Send = false, whatever its other fields,
\* sendBotResponse calls neither TbAPI.Send nor MsgLogger.Save and returns no
\* error, on the update, the submission and the idle path.
C4_NoSendNoEffect ==
    (Handled /\ ~lastEvent.resp.Send) =>
        /\ AfterDispatch(lastEvent) = <<>>
        /\ CallsOf(lastEvent, "Send") = <<>>
        /\ ~lastEvent.failed

\* a Response with Send = false and every other field set answered an update
C4_Witness ==
    /\ lastEvent.kind = "update"
    /\ ~lastEvent.resp.Send
    /\ lastEvent.resp.BanInterval > 0
    /\ lastEvent.resp.Text # ""
    /\ lastEvent.resp.ParseMode # ""
    /\ lastEvent.calls # <<>>

\* the update of the latest iteration came from a chat that is not private and
\* whose id is the target chat id
FromTargetChat == lastEvent.kind = "update" /\ lastEvent.chat = chatID

\* The calls of an update from the target chat: Save of the transformed
\* message, OnMessage of the same message, and then, for a Response to send,
\* the Send to the target chat (in Markdown mode when markdownAlways, else in
\* the mode the Response names, Markdown when it names none), its retry if
\* any, and after a delivery the Save of the sent message.
C5_Order(markdownAlways) ==
    FromTargetChat =>
        LET calls == lastEvent.calls
            wire == lastEvent.update[1].Message[1]
            resp == lastEvent.resp
            n == Len(calls)
            mode == IF markdownAlways \/ resp.ParseMode = "" THEN "Markdown"
                    ELSE resp.ParseMode
        IN /\ n >= 2
           /\ calls[1].op = "Save"
           /\ calls[1].msg.ID = wire.MessageID
           /\ calls[1].msg.Text = wire.Text
           /\ calls[1].msg.ChatID = <<"-", "1", "0", "0", "_", "0">>
           /\ calls[2].op = "OnMessage"
           /\ calls[2].msg = calls[1].msg
           /\ ~resp.Send => n = 2
           /\ resp.Send =>
                 /\ n >= 3
                 /\ calls[3].op = "Send"
                 /\ calls[3].send.ChatID = chatID
                 /\ calls[3].send.Text = resp.Text
                 /\ calls[3].send.ParseMode = mode
                 /\ IF lastEvent.failed
                    THEN \A i \in 3..n : calls[i].op = "Send"
                    ELSE /\ \A i \in 3..(n - 1) : calls[i].op = "Send"
                         /\ calls[n].op = "Save"
                         /\ calls[n].msg.Text = resp.Text
                         /\ calls[n].msg.ChatID = calls[1].msg.ChatID
                         /\ calls[n].msg.ID # wire.MessageID

\* C5 as claimed: for an update from the target chat the loop saves the
\* transformed message, dispatches it and, if the Response has Send = true,
\* attempts the delivery to the target chat in Markdown mode, saving the sent
\* message when the delivery succeeds.
C5_MarkdownDelivery == C5_Order(TRUE)

\* C5 as amended: the same, the delivery being attempted in the parse mode
\* the Response names, and in Markdown mode when it names none.
C5_SaveDispatchDeliver == C5_Order(FALSE)

\* an update from the target chat was answered in HTML mode and the sent
\* message was saved
C5_Witness ==
    /\ FromTargetChat
    /\ lastEvent.resp.Send
    /\ lastEvent.resp.ParseMode = "HTML"
    /\ ~lastEvent.failed
    /\ Len(lastEvent.calls) = 4

\* C6: the idle case dispatches a message with text "idle", no sender and no
\* attachment, sends the Response to the target chat if it has Send = true,
\* and never gives the "idle" message to MsgLogger.Save.
C6_IdleNotSaved ==
    lastEvent.kind = "idle" =>
        LET calls == lastEvent.calls
            idle == calls[1].msg
        IN /\ Len(calls) >= 1
           /\ calls[1].op = "OnMessage"
           /\ idle.Text = "idle"
           /\ idle.ID = 0
           /\ idle.ChatID = <<>>
           /\ idle.From = [ID |-> 0, Username |-> "", DisplayName |-> ""]
           /\ idle.Image = <<>>
           /\ idle.Entities = <<>>
           /\ \A i \in 1..Len(calls) : calls[i].op = "Save" => calls[i].msg # idle
           /\ IF lastEvent.resp.Send
              THEN /\ Len(calls) >= 2
                   /\ calls[2].op = "Send"
                   /\ calls[2].send.ChatID = chatID
                   /\ calls[2].send.Text = lastEvent.resp.Text
              ELSE Len(calls) = 1

\* an idle dispatch was answered, the answer delivered and saved
C6_Witness ==
    /\ lastEvent.kind = "idle"
    /\ lastEvent.resp.Send
    /\ ~lastEvent.failed
    /\ CallsOf(lastEvent, "Save") # <<>>

\* C7 as claimed: a select evaluated after the context was cancelled handles
\* no update, no submission and no idle timeout, whatever else is ready.
C7_NothingAfterCancel ==
    [][(ctxDone /\ doPC = "select") => lastEvent'.kind = "none"]_vars

\* C7 as amended: Do returns the context's error only when the context is
\* cancelled, and returns at the iteration whose select takes the ctx.Done
\* case: a blocked select that the cancellation wakes handles no event, and
\* once Do has returned no update, submission or idle timeout is handled.  (A
\* select that finds another case ready as well may take that case first.)
C7_NothingAfterReturn ==
    /\ [](doErr = "ctx" => (ctxDone /\ doPC = "returned"))
    /\ [][(doPC = "blocked" /\ woken = "ctx") => lastEvent'.kind = "none"]_vars
    /\ [][doPC = "returned" =>
             (lastEvent'.kind = "none" /\ doPC' = "returned" /\ doErr' = doErr)]_vars

\* Do has returned the context's error with an update left in the channel
C7_Witness ==
    /\ doPC = "returned"
    /\ doErr = "ctx"
    /\ updates # <<>>

\* C9: with IdleDuration left at zero, the idle timeout of the running loop is
\* 30 seconds, whatever the order of Do and the submissions.
C9_DefaultIdle ==
    (doPC \in {"select", "blocked"} /\ cfgIdle = 0) => IdleDuration = 30

\* C10: for an update answered with Send = true and a nonzero BanInterval the
\* loop also asks the transport (TbAPI.Request) for a ban.
C10_BanRequested ==
    (lastEvent.kind = "update" /\ lastEvent.resp.Send
        /\ lastEvent.resp.BanInterval > 0) =>
        \E i \in 1..Len(lastEvent.calls) : lastEvent.calls[i].op = "Request"


\* C3: the outbound channel never holds more than 100 Responses, and a call of
\* Submit or SubmitHTML returns from its select in one of two ways only: nil,
\* when the channel had a free slot, its Response then being the last of the
\* channel; or the context's error, when its context is cancelled, nothing
\* then being enqueued.  So a call that finds 100 pending Responses stays in
\* its select until the loop frees a slot or its context is cancelled.
C3_BlocksAtCapacity ==
    /\ [](\A i \in 1..Len(chans) : Len(chans[i]) <= ChanCap)
    /\ [][\A p \in Procs :
             (pc[p] = "select" /\ pc'[p] # "select") =>
                 \/ /\ result'[p] = "nil"
                    /\ Len(chans[pch[p]]) < ChanCap
                    /\ chans' = [chans EXCEPT ![pch[p]] = Append(@, req[p])]
                 \/ /\ result'[p] = "ctxerr"
                    /\ pctx[p]
                    /\ chans' = chans]_vars

\* two calls found the channel full: one has enqueued its Response after the
\* loop freed a slot, the other has returned the error of its context
C3_Witness ==
    \E p, q \in Procs :
        /\ metFull[p] /\ pc[p] = "done" /\ result[p] = "nil"
        /\ metFull[q] /\ pc[q] = "done" /\ result[q] = "ctxerr"
        /\ lastEvent.kind = "submission"

\* C8: whatever the order of Do and the calls of Submit and SubmitHTML, there
\* is at most one outbound channel, made by the first of them to run
\* msgs.once; every call in its select sends to it and the running loop
\* receives from it; once made it is never replaced, and Do starting after
\* it was made leaves the Responses it holds in it.
C8_OneChannel ==
    /\ [](/\ Len(chans) <= 1
          /\ IF onceDone THEN msgsCh = 1 /\ Len(chans) = 1
                         ELSE msgsCh = 0 /\ chans = <<>>
          /\ \A p \in Procs : pc[p] = "select" => pch[p] = msgsCh
          /\ doPC \in {"select", "blocked"} => msgsCh = 1)
    /\ [][msgsCh # 0 =>
             /\ msgsCh' = msgsCh
             /\ (doPC = "init" /\ doPC' # "init") => chans' = chans]_vars

\* Submit ran msgs.once before Do did, both goroutines have enqueued a
\* Response, and the loop has received the one of SubmitHTML
C8_Witness ==
    /\ lastEvent.kind = "submission"
    /\ lastEvent.resp.ParseMode = ModeHTML
    /\ cfgIdle = 0
    /\ IdleDuration = 0
    /\ \A p \in Procs : pc[p] = "done" /\ result[p] = "nil"


\* an update the loop is to ignore: it has no message, or its chat is private
\* or has id zero
Ignorable(update) ==
    \/ update.Message = <<>>
    \/ update.Message[1].Chat.Type = "private"
    \/ update.Message[1].Chat.ID = 0

\* C11: the iteration that receives an update with no message, from a private
\* chat or from chat id zero makes no call at all (no Save, no OnMessage, no
\* Send), and leaves Do in its loop, at its next select, with no error.
C11_DropsIgnored ==
    /\ [](lastEvent.kind = "drop" =>
             /\ lastEvent.calls = <<>>
             /\ doPC = "select"
             /\ doErr = "none")
    /\ [][(lastEvent'.kind \in {"drop", "update"} /\ Ignorable(Head(updates))) =>
             /\ lastEvent'.kind = "drop"
             /\ lastEvent'.update = <<Head(updates)>>
             /\ updates' = Tail(updates)]_vars

\* a message of the target chat, sent in private, was dropped
C11_Witness ==
    /\ lastEvent.kind = "drop"
    /\ lastEvent.update[1].Message # <<>>
    /\ lastEvent.update[1].Message[1].Chat = [ID |-> chatID, Type |-> "private"]


\* C12: Do returns the error of the closed update channel only when that
\* channel is closed and drained; the select that the closure wakes returns
\* that error, not the context's, handling no event; after that return
\* nothing is handled, Do stays returned and the channel stays closed (no new
\* subscription).
C12_ClosedReturns ==
    /\ [](doErr = "closed" => (doPC = "returned" /\ updatesClosed /\ updates = <<>>))
    /\ [][(doPC = "blocked" /\ woken = "update" /\ updates = <<>>) =>
             \/ doPC' = "blocked"
             \/ /\ doPC' = "returned"
                /\ doErr' = "closed"
                /\ lastEvent'.kind = "none"]_vars
    /\ [][doErr = "closed" =>
             /\ lastEvent'.kind = "none"
             /\ doPC' = "returned"
             /\ doErr' = "closed"
             /\ updatesClosed'
             /\ subscribed' = subscribed]_vars

\* Do has returned on the closed update channel with a Response left in the
\* outbound channel
C12_Witness ==
    /\ doPC = "returned"
    /\ doErr = "closed"
    /\ MsgReady


\* C13: Do returns the chat id error only for a Group that is no number,
\* after one GetChat call that failed, and then it has not run msgs.once nor
\* subscribed to updates, and never handles an event or receives a Response
\* afterwards.  For the numeric Group "-100" no GetChat call is ever made,
\* Do does not fail to start, and the target chat id is -100.
C13_ChatIDResolution ==
    /\ [](doErr = "chatid" =>
             /\ doPC = "returned"
             /\ ~subscribed
             /\ Group # <<"-", "1", "0", "0">>
             /\ resolveCalls = 1)
    /\ [](Group = <<"-", "1", "0", "0">> =>
             /\ resolveCalls = 0
             /\ doErr # "chatid"
             /\ doPC # "init" => (chatID = -100 /\ (doErr = "none" => subscribed)))
    /\ [][(doPC = "init" /\ doErr' = "chatid") =>
             /\ onceDone' = onceDone
             /\ chans' = chans
             /\ msgsCh' = msgsCh
             /\ IdleDuration' = IdleDuration]_vars
    /\ [][doErr = "chatid" =>
             /\ lastEvent'.kind = "none"
             /\ doPC' = "returned"
             /\ doErr' = "chatid"
             /\ msgsCh # 0 => Len(chans'[msgsCh']) >= Len(chans[msgsCh])]_vars

\* Do has failed to resolve the group name, and a Response submitted since
\* waits in the outbound channel
C13_Witness ==
    /\ doErr = "chatid"
    /\ Pending > 0
    /\ \E p \in Procs : pc[p] = "done" /\ result[p] = "nil"


\* the message the loop gave to the Dispatcher in its last iteration
Dispatched == CallsOf(lastEvent, "OnMessage")[1].msg

\* C14: the transformed message has Entities exactly when the wire message
\* has at least one span, and then as many as it has; it has an Image
\* exactly when the wire message has no span and at least one photo size, and
\* then that of its last size; never both; and neither Entities nor the
\* Entities of the Image is an empty list.
C14_EntitiesOrImage ==
    lastEvent.kind = "update" =>
        LET wire == lastEvent.update[1].Message[1]
            msg == Dispatched
            spans == Len(wire.Entities) >= 1
            photos == Len(wire.Photo) >= 1
        IN /\ (msg.Entities # <<>>) <=> spans
           /\ (msg.Image # <<>>) <=> (~spans /\ photos)
           /\ ~(msg.Entities # <<>> /\ msg.Image # <<>>)
           /\ msg.Entities # << <<>> >>
           /\ spans =>
                 /\ Len(msg.Entities[1]) = Len(wire.Entities)
                 /\ \A i \in 1..Len(wire.Entities) :
                       /\ msg.Entities[1][i].Type = wire.Entities[i].Type
                       /\ msg.Entities[1][i].Offset = wire.Entities[i].Offset
                       /\ msg.Entities[1][i].Length = wire.Entities[i].Length
           /\ msg.Image # <<>> =>
                 /\ msg.Image[1].FileID = wire.Photo[Len(wire.Photo)].FileID
                 /\ msg.Image[1].Caption = wire.Caption
                 /\ msg.Image[1].Entities # << <<>> >>
                 /\ (msg.Image[1].Entities # <<>>) <=> (Len(wire.CaptionEntities) >= 1)

\* a message with two spans and two photo sizes was transformed: its spans
\* are set and its image is not
C14_Witness ==
    /\ lastEvent.kind = "update"
    /\ Len(lastEvent.update[1].Message[1].Entities) = 2
    /\ Len(lastEvent.update[1].Message[1].Photo) = 2
    /\ Dispatched.Entities # <<>>
    /\ Dispatched.Image = <<>>


\* C15: GetRandomMessage returns nil when none of the messages added to the
\* conversation is retained (none was added, or the capacity is 0), and
\* otherwise one of the last min(n, limit) of the n messages added to it,
\* which is a message of that conversation; in the single-sequence form the
\* same of all the messages added.
C15_RandomRetained ==
    /\ picked.form = "chats" =>
          LET all == AddedTo(picked.key)
              kept == LastN(all, Min(Len(all), limit))
          IN IF kept = <<>> THEN picked.result = <<>>
             ELSE /\ picked.result # <<>>
                  /\ \E i \in 1..Len(kept) : kept[i] = picked.result[1]
                  /\ picked.result[1].ChatID = picked.key
    /\ picked.form = "legacy" =>
          LET kept == LastN(legacyAdded, Min(Len(legacyAdded), limit))
          IN IF kept = <<>> THEN picked.result = <<>>
             ELSE /\ picked.result # <<>>
                  /\ \E i \in 1..Len(kept) : kept[i] = picked.result[1]

\* a message was returned for a conversation that has lost a message to the
\* bound, while another conversation retains one
C15_Witness ==
    /\ picked.form = "chats"
    /\ picked.result # <<>>
    /\ Len(AddedTo(picked.key)) > limit
    /\ \E c \in HistChatIDs : c # picked.key /\ GetMessagesByChatID(chats, c) # <<>>


\* C16: every Save of an iteration is either its first call, of the
\* transformed update, whose chat is the target chat, or its last call, of
\* the message a Send to the target chat has just delivered without error; an
\* update from another chat, its delivered answer included, and an answer of
\* which every Send failed, cause no Save.
C16_SavedOnlyTarget ==
    LET calls == lastEvent.calls
        n == Len(calls)
    IN /\ \A i \in 1..n :
             calls[i].op = "Save" =>
                 \/ /\ i = 1
                    /\ lastEvent.kind = "update"
                    /\ lastEvent.update[1].Message[1].Chat.ID = chatID
                    /\ calls[i].msg.ID = lastEvent.update[1].Message[1].MessageID
                 \/ /\ i > 1
                    /\ i = n
                    /\ calls[i - 1].op = "Send"
                    /\ calls[i - 1].send.err = <<>>
                    /\ calls[i - 1].send.ChatID = chatID
                    /\ calls[i].msg.Text = calls[i - 1].send.Text
                    /\ ~lastEvent.failed
       /\ (lastEvent.kind = "update"
              /\ lastEvent.update[1].Message[1].Chat.ID # chatID) =>
             CallsOf(lastEvent, "Save") = <<>>
       /\ lastEvent.failed => calls[n].op = "Send" /\ calls[n].send.err # <<>>

\* the answer to an update from another chat was delivered there, and
\* nothing was saved
C16_Witness ==
    /\ lastEvent.kind = "update"
    /\ lastEvent.chat # chatID
    /\ lastEvent.resp.Send
    /\ ~lastEvent.failed
    /\ CallsOf(lastEvent, "Send") # <<>>
    /\ CallsOf(lastEvent, "Save") = <<>>


\* C17: every Send of an iteration, the retry included, is addressed to the
\* chat of the update when the iteration handles an update, and to the
\* target chat when it handles a submission or the idle timeout.
C17_SendAddress ==
    \A i \in 1..Len(lastEvent.calls) :
        lastEvent.calls[i].op = "Send" =>
            /\ lastEvent.kind \in {"update", "submission", "idle"}
            /\ lastEvent.calls[i].send.ChatID =
                  IF lastEvent.kind = "update"
                  THEN lastEvent.update[1].Message[1].Chat.ID
                  ELSE chatID

\* the answer to an update from another chat was sent there twice, the
\* second time without parse mode
C17_Witness ==
    /\ lastEvent.kind = "update"
    /\ lastEvent.update[1].Message[1].Chat.ID = -200
    /\ chatID = -100
    /\ Len(CallsOf(lastEvent, "Send")) = 2
    /\ \A i \in 1..2 : CallsOf(lastEvent, "Send")[i].send.ChatID = -200


\* C18: Do has returned only with the error of the chat id (and then it never
\* subscribed), of the closed update channel (and then it is closed) or of
\* the cancelled context (and then it is cancelled).  An iteration that
\* handles an event, whether its delivery fails or not, leaves Do at its next
\* select with no error, and puts nothing back into the outbound channel: the
\* Response of a failed delivery is not queued again.
C18_ReturnReasons ==
    /\ [](/\ doPC = "returned" <=> doErr # "none"
          /\ doErr \in {"none", "chatid", "closed", "ctx"}
          /\ doErr = "chatid" => ~subscribed
          /\ doErr = "closed" => updatesClosed
          /\ doErr = "ctx" => ctxDone
          /\ lastEvent.kind # "none" => (doPC = "select" /\ doErr = "none"))
    /\ [][lastEvent'.kind # "none" =>
             /\ doPC # "returned"
             /\ msgsCh' = msgsCh
             /\ msgsCh # 0 =>
                   chans'[msgsCh] = IF lastEvent'.kind = "submission"
                                    THEN Tail(chans[msgsCh]) ELSE chans[msgsCh]]_vars

\* the delivery of a submission and its retry without parse mode have both
\* failed, and the loop is at its next select
C18_Witness ==
    /\ lastEvent.kind = "submission"
    /\ lastEvent.failed
    /\ Len(lastEvent.calls) = 2
    /\ doPC = "select"
    /\ doErr = "none"


\* C19: the outbound channel is a queue.  A call that returns nil has put its
\* Response behind those the channel held; the iteration that handles a
\* submission takes the Response at the front, the oldest, removes it from
\* the channel, and sends that one and no other, first in its own parse mode;
\* and no other step changes what the channel holds.
C19_SubmissionOrder ==
    /\ [][\A p \in Procs :
             (pc[p] = "select" /\ pc'[p] = "done" /\ result'[p] = "nil") =>
                 chans'[pch[p]] = Append(chans[pch[p]], req[p])]_vars
    /\ [][lastEvent'.kind = "submission" =>
             /\ chans[msgsCh] # <<>>
             /\ lastEvent'.resp = Head(chans[msgsCh])
             /\ chans'[msgsCh] = Tail(chans[msgsCh])
             /\ lastEvent'.calls[1].op = "Send"
             /\ \A i \in 1..Len(lastEvent'.calls) :
                   lastEvent'.calls[i].op = "Send" =>
                       lastEvent'.calls[i].send.Text = Head(chans[msgsCh]).Text
             /\ lastEvent'.calls[1].send.ParseMode =
                   IF Head(chans[msgsCh]).ParseMode = "" THEN "Markdown"
                   ELSE Head(chans[msgsCh]).ParseMode]_vars
    /\ [][(msgsCh # 0 /\ chans'[msgsCh] # chans[msgsCh]) =>
             \/ lastEvent'.kind = "submission"
             \/ \E p \in Procs : pc[p] = "select" /\ pc'[p] = "done"
                                    /\ result'[p] = "nil"]_vars

\* one goroutine has called Submit and then SubmitHTML, both returned nil,
\* and the loop has sent the Response of Submit while that of SubmitHTML is
\* still the next in the channel
C19_Witness ==
    /\ pc["p2"] = "idle"
    /\ pc["p1"] = "done"
    /\ result["p1"] = "nil"
    /\ lastEvent.kind = "submission"
    /\ lastEvent.resp.ParseMode = ""
    /\ CallsOf(lastEvent, "Send") # <<>>
    /\ Pending = 1
    /\ Head(chans[msgsCh]).ParseMode = "HTML"


\* C20: the idle case is taken only by a select that blocked, that nothing
\* woke before its timer did, and that had then waited IdleDuration or more;
\* the wait is counted only while the select is blocked with nothing
\* received, and every iteration, one that dropped its update included,
\* leaves the loop at a select that has waited zero.
C20_IdleAfterFullWait ==
    /\ [](/\ lastEvent.kind = "idle" => lastEvent.waited >= IdleDuration
          /\ lastEvent.kind # "none" => waited = 0
          /\ doPC = "select" => waited = 0
          /\ woken = "timer" => waited >= IdleDuration)
    /\ [][lastEvent'.kind = "idle" =>
             (IdleDuration > 0 => (doPC = "blocked" /\ woken = "timer"))]_vars
    /\ [][waited' > waited =>
             (doPC = "blocked" /\ woken = "none" /\ doPC' = "blocked")]_vars

\* an update that the loop dropped ended a wait of half the idle duration,
\* and the next wait starts from zero
C20_Witness ==
    /\ lastEvent.kind = "drop"
    /\ lastEvent.waited > 0
    /\ lastEvent.waited < IdleDuration
    /\ waited = 0


\* C21: an Add of a message of conversation A adds one to the counter of A
\* and leaves every other conversation as it was: whether it has an entry,
\* its counter, its retained messages and what GetMessagesByChatID returns
\* for it.  Each conversation retains min(n, limit) of the n messages added
\* to it, however many the other conversations retain.
C21_AddFrame ==
    /\ [](\A c \in QueryChatIDs :
             Len(GetMessagesByChatID(chats, c)) = Min(Len(AddedTo(c)), limit))
    /\ [][added' # added =>
             LET message == added'[Len(added')]
             IN /\ added' = Append(added, message)
                /\ message.ChatID \in DOMAIN chats'
                /\ chats'[message.ChatID].count =
                      ChatHistoryOf(chats, message.ChatID).count + 1
                /\ \A c \in QueryChatIDs :
                      c # message.ChatID =>
                          /\ c \in DOMAIN chats' <=> c \in DOMAIN chats
                          /\ ChatHistoryOf(chats', c) = ChatHistoryOf(chats, c)
                          /\ GetMessagesByChatID(chats', c) =
                                GetMessagesByChatID(chats, c)]_vars

\* two conversations each retain as many messages as the capacity allows,
\* one of them after losing its oldest
C21_Witness ==
    /\ limit >= 1
    /\ \A c \in HistChatIDs : Len(GetMessagesByChatID(chats, c)) = limit
    /\ \E c \in HistChatIDs : Len(AddedTo(c)) > limit


\* C22: getBanUsername returns for every Response and every update with a
\* message, and what it returns is the formatted user when the Response has ChannelID 0, else the
\* channel identity with that ChannelID and the handle of the message's
\* sender chat when that is not blank, else the handle of the replied-to
\* message's sender chat when there is one, else a blank handle.
C22_BanUsername ==
    (banCall.called /\ ~IsNil(banCall.update.Message)) =>
        /\ ~banCall.out.panic
        /\ banCall.resp.ChannelID = 0 =>
              banCall.out.value = FormatUser(banCall.resp.User)
        /\ banCall.resp.ChannelID # 0 =>
              LET msg == banCall.update.Message[1]
                  own == IF IsNil(msg.SenderChat) THEN ""
                         ELSE msg.SenderChat[1].UserName
                  replied == IF IsNil(msg.ReplyToMessage) THEN ""
                             ELSE IF IsNil(msg.ReplyToMessage[1].SenderChat) THEN ""
                             ELSE msg.ReplyToMessage[1].SenderChat[1].UserName
              IN banCall.out.value =
                    FormatSenderChat([ID |-> banCall.resp.ChannelID,
                                      UserName |-> IF own # "" THEN own ELSE replied])


\* the outbound channel, empty while it is not made
Queue == IF msgsCh = 0 THEN <<>> ELSE chans[msgsCh]

\* Do is in its loop, its context is not cancelled and the update channel is
\* open
Running == doPC \in {"select", "blocked"} /\ ~ctxDone /\ ~updatesClosed

\* the loop has just passed a Response from the channel to Send
SentSubmission ==
    /\ lastEvent.kind = "submission"
    /\ Len(CallsOf(lastEvent, "Send")) >= 1
    /\ CallsOf(lastEvent, "Send")[1].send.Text = lastEvent.resp.Text

\* C23: while Do is running and the channel holds a Response, the loop comes
\* to pass a Response of the channel to Send, unless the context is cancelled
\* or the update channel closed first; this with updates arriving all the
\* time.  The Response it passes is always the head of the channel, and a
\* Response leaves the channel in no other way, so that each accepted
\* Response has its turn.  Once Do has returned, no Response is taken from
\* the channel or sent.
C23_EventuallySent ==
    /\ (Running /\ Queue # <<>>) ~> (SentSubmission \/ ctxDone \/ updatesClosed)
    /\ [][/\ Queue' # Queue =>
                \/ /\ Len(Queue') = Len(Queue) + 1
                   /\ SubSeq(Queue', 1, Len(Queue)) = Queue
                   /\ lastEvent'.kind = "none"
                \/ /\ Queue # <<>>
                   /\ Queue' = Tail(Queue)
                   /\ SentSubmission'
                   /\ lastEvent'.resp = Head(Queue)
          /\ lastEvent'.kind = "submission" => Queue' # Queue
          /\ doPC = "returned" =>
                /\ lastEvent'.kind = "none"
                /\ Len(Queue') >= Len(Queue)
                /\ SubSeq(Queue', 1, Len(Queue)) = Queue]_vars

\* a Response the goroutine had enqueued was passed to Send by a select at
\* which an update was waiting too, with another Response behind it
C23_Witness ==
    /\ Running
    /\ lastEvent.kind = "submission"
    /\ Len(CallsOf(lastEvent, "Send")) >= 1
    /\ updates # <<>>
    /\ Queue # <<>>


\* how a call that leaves its select leaves it: nil, its Response (Send set)
\* then being one more at the back of the channel, or the context's error,
\* its context then being cancelled and the channel left as it was
CallOutcome(p) ==
    \/ /\ result'[p] = "nil"
       /\ req[p].Send
       /\ chans' = [chans EXCEPT ![pch[p]] = Append(@, req[p])]
    \/ /\ result'[p] = "ctxerr"
       /\ pctx[p]
       /\ chans' = chans

\* C24 as stated: a call of Submit or SubmitHTML ends in one of the two
\* outcomes, and a call made with a context already cancelled ends with the
\* context's error and nothing enqueued, be the channel full or not.
C24_CancelledCallFails ==
    [][\A p \in Procs :
          (pc[p] = "select" /\ pc'[p] = "done") =>
              /\ CallOutcome(p)
              /\ metDone[p] => (result'[p] = "ctxerr" /\ chans' = chans)]_vars

\* C24, amended: a call ends in one of the two outcomes; a call made with a
\* context already cancelled ends with the context's error and nothing
\* enqueued when the channel is full, and a call that ends with nil found a
\* free slot, whatever its context.
C24_TwoOutcomes ==
    [][\A p \in Procs :
          (pc[p] = "select" /\ pc'[p] = "done") =>
              /\ CallOutcome(p)
              /\ (metDone[p] /\ Len(chans[pch[p]]) = ChanCap) =>
                    (result'[p] = "ctxerr" /\ chans' = chans)
              /\ result'[p] = "nil" => Len(chans[pch[p]]) < ChanCap]_vars

\* a call made with a cancelled context has enqueued its Response and
\* returned nil, and another, which found the channel full, has returned the
\* context's error
C24_Witness ==
    \E p, q \in Procs :
        /\ metDone[p] /\ pc[p] = "done" /\ result[p] = "nil"
        /\ metDone[q] /\ metFull[q] /\ pc[q] = "done" /\ result[q] = "ctxerr"
        /\ Pending = ChanCap

=============================================================================
